---------------------------- MODULE Spec2Model ----------------------------
(***************************************************************************)
(* The randomized hyperparameter search of vision/train/hparam_search.py:  *)
(* main() runs num_trials training attempts one after the other, logs      *)
(* each trial's configuration and outcome, collects the two metric series  *)
(* of every trial whose training call returned, and plots them at the end. *)
(*                                                                         *)
(* Real-valued hyperparameters are written in units of 1e-4 (lr 0.0005 is  *)
(* 5, momentum 0.99 is 9900), so that they are integers.                   *)
(***************************************************************************)
EXTENDS FiniteSets, Integers, Sequences, TLC

(***************************************************************************)
(* Bounds of the model.                                                    *)
(***************************************************************************)
\* largest --num_trials explored
MaxTrials == 2

(***************************************************************************)
(* Names of the program.                                                   *)
(***************************************************************************)
AVERAGE_PRECISION_STAT_LABEL == "average precision"

AVERAGE_RECALL_STAT_LABEL == "average recall"

StatLabels == {AVERAGE_PRECISION_STAT_LABEL, AVERAGE_RECALL_STAT_LABEL}

\* value of a name that is not bound (Python None / loop variable before the loop)
None == "None"

NoTrial == -1

\* an object reference that is not set
NoObject == -1

(***************************************************************************)
(* _hparams: the distributions.  A distribution is a record tagged by its   *)
(* class; a literal alternative of RandomHPChoices is wrapped by Lit.       *)
(***************************************************************************)
Lit(v) == [cls |-> "literal", value |-> v]

RandomExponential(min_val, max_val) ==
    [cls |-> "RandomExponential", min_val |-> min_val, max_val |-> max_val]

RandomExponentialDiff(scale, min_val, max_val) ==
    [cls |-> "RandomExponentialDiff", scale |-> scale,
     min_val |-> min_val, max_val |-> max_val]

RandomHPChoices(choices) == [cls |-> "RandomHPChoices", choices |-> choices]

\* the point of [lo, hi] at which a continuous draw is explored
GridOf(lo, hi) == {lo}

\* get_next() of a distribution: the set of values one call may return
RECURSIVE get_next(_)
get_next(d) ==
    CASE d.cls = "literal" -> {d.value}
      [] d.cls = "RandomExponential" -> GridOf(d.min_val, d.max_val)
      [] d.cls = "RandomExponentialDiff" ->
            {d.scale - e : e \in GridOf(d.min_val, d.max_val)}
      [] d.cls = "RandomHPChoices" ->
            UNION {get_next(d.choices[k]) : k \in DOMAIN d.choices}

(***************************************************************************)
(* The search space declared by main().                                    *)
(***************************************************************************)
WeightDecayChoices == RandomHPChoices(<<Lit(0), Lit(100), Lit(1)>>)

SGDOptions ==
    [lr |-> RandomExponential(5, 1000),
     momentum |-> RandomHPChoices(<<Lit(0), RandomExponentialDiff(10000, 100, 5000)>>),
     weight_decay |-> WeightDecayChoices]

AdamOptions ==
    [lr |-> RandomExponential(5, 1000),
     weight_decay |-> WeightDecayChoices]

\* _hparams.Optimizer(name, options): a declared spec, no params attached yet
Optimizer(name, options) == [name |-> name, options |-> options, params |-> NoObject]

\* optimizer_choices of main(), keyed by position in the list
DeclaredOptimizerChoices ==
    <<Optimizer("SGD", SGDOptions),
      Optimizer("Adam", AdamOptions),
      Optimizer("AdamW", AdamOptions)>>

\* lr_scheduler_choices of main(): the only alternative is None
DeclaredSchedulerChoices == <<None>>

(***************************************************************************)
(* torch.optim: the defaults a constructed optimizer reports (lr of SGD has  *)
(* no default: -1 stands for the "required" marker).                        *)
(***************************************************************************)
TorchDefaults(name) ==
    IF name = "SGD"
    THEN [lr |-> -1, momentum |-> 0, dampening |-> 0,
          weight_decay |-> 0, nesterov |-> FALSE]
    ELSE [lr |-> 10, betas |-> <<9000, 9990>>, eps |-> "1e-08",
          weight_decay |-> IF name = "AdamW" THEN 100 ELSE 0,
          amsgrad |-> FALSE]

\* torch.optim.<name>(params, **kwargs)
TorchOptimizer(name, params, kwargs) ==
    [name |-> name,
     params |-> params,
     defaults |-> [k \in DOMAIN TorchDefaults(name) |->
                     IF k \in DOMAIN kwargs THEN kwargs[k]
                     ELSE TorchDefaults(name)[k]]]

(***************************************************************************)
(* _hparams.Optimizer: binding and materializing.                          *)
(***************************************************************************)
\* Optimizer.set_params(params): attaches the target to the spec itself
set_params(spec, params) == [spec EXCEPT !.params = params]

\* the keyword maps one Optimizer.get_next() may sample
SampledOptions(spec) ==
    LET values == UNION {get_next(spec.options[k]) : k \in DOMAIN spec.options}
    IN  {kw \in [DOMAIN spec.options -> values] :
            \A k \in DOMAIN spec.options : kw[k] \in get_next(spec.options[k])}

\* Optimizer.get_next() with the keyword map kw drawn: the live optimizer
Optimizer_get_next(spec, kw) == TorchOptimizer(spec.name, spec.params, kw)

(***************************************************************************)
(* The external collaborators, by their possible outcomes.                 *)
(***************************************************************************)
\* _models.__dict__[network](num_classes) returns a model or raises
ModelOutcomes == {"ok", "Exception"}

\* train.train_model returns, or raises one of these; "Exception" stands for
\* any exception that is neither a RuntimeError nor a KeyboardInterrupt
TrainOutcomes == {"return", "RuntimeError", "KeyboardInterrupt", "Exception"}

\* the metrics mappings train_model may return: complete ones, and ones
\* that lack a key
ReturnedMetrics ==
    {(AVERAGE_PRECISION_STAT_LABEL :> <<1, 2>>) @@ (AVERAGE_RECALL_STAT_LABEL :> <<3, 4>>),
     (AVERAGE_PRECISION_STAT_LABEL :> <<5>>) @@ (AVERAGE_RECALL_STAT_LABEL :> <<6>>),
     (AVERAGE_PRECISION_STAT_LABEL :> <<1, 2>>),
     (AVERAGE_RECALL_STAT_LABEL :> <<3, 4>>)}

(***************************************************************************)
(* The state of main().                                                    *)
(***************************************************************************)
VARIABLES
    num_trials,          \* args.num_trials
    pc,                  \* position of main()
    it,                  \* next index range(num_trials) yields
    i,                   \* the loop variable
    clock,               \* what int(time.time()) returns next
    next_model,          \* identity of the next model object constructed
    model,               \* the model of the current trial
    params,              \* its trainable parameters
    optimizer_choices,   \* the optimizer search space (the declared specs)
    lr_scheduler_choices,\* the scheduler search space
    optimizer_choice,    \* position of the spec chosen in this trial
    sampled,             \* keyword values drawn by the chosen spec
    optimizer,           \* the optimizer constructed in this trial
    lr_scheduler,        \* the scheduler constructed in this trial
    metrics,             \* the mapping returned by train_model
    log_file,            \* lines written to the log, in order
    log_open,            \* the log file is open
    stat_totals,         \* label -> trial index -> per-epoch sequence
    plots,               \* the plot files saved, in order
    train_calls,         \* the calls of train_model made, in order
    raised               \* the exception that left main(), or None

vars == <<num_trials, pc, it, i, clock, next_model, model, params,
          optimizer_choices, lr_scheduler_choices, optimizer_choice, sampled,
          optimizer, lr_scheduler, metrics, log_file, log_open, stat_totals,
          plots, train_calls, raised>>

trial_vars == <<model, params, optimizer_choice, sampled, optimizer,
                lr_scheduler, metrics>>

space_vars == <<optimizer_choices, lr_scheduler_choices>>

report_vars == <<log_open, plots>>

\* an empty dict
EmptyDict == << >>

\* optimizer_choice and optimizer before the first trial binds them
NoChoice == 0

NoOptimizer == [name |-> None, params |-> NoObject, defaults |-> EmptyDict]

\* log_and_print that writes every line under trial number 0
log_and_print_first_trial(log, trial_num, tag, val) ==
    Append(log, [trial |-> 0, tag |-> tag, val |-> val])

\* log_and_print(log_file, trial_num, message): one more line for the trial
log_and_print(log, trial_num, tag, val) ==
    Append(log, [trial |-> trial_num, tag |-> tag, val |-> val])

\* _models.<network>(num_classes): the n-th call constructs the n-th model
\* object, a new one on every call
build_model(n) == n

\* ParametersOf taking the parameters of the first model constructed
ParametersOfFirstModel(m) == 0

\* model.parameters() of the model: the parameter collection of that object
ParametersOf(m) == m

\* RangeHasNext off by one
RangeHasNextInclusive(k, n) == k <= n

\* range(n) has a next element at position k
RangeHasNext(k, n) == k < n

\* DictSet that replaces the dict by one holding only the new entry
DictSetReplacing(d, key, value) == key :> value

\* d[key] = value on a dict
DictSet(d, key, value) == (key :> value) @@ d

\* ExceptClause with "except RuntimeError" leaving the loop
ExceptClauseBreakOnFailure(outcome) ==
    CASE outcome = "return" -> "else"
      [] outcome = "RuntimeError" -> "break"
      [] outcome = "KeyboardInterrupt" -> "break"
      [] OTHER -> "propagate"

\* ExceptClause with "except KeyboardInterrupt" going on with the loop
ExceptClauseContinueOnInterrupt(outcome) ==
    CASE outcome = "return" -> "else"
      [] outcome = "RuntimeError" -> "continue"
      [] outcome = "KeyboardInterrupt" -> "continue"
      [] OTHER -> "propagate"

\* the clause of the try statement that handles an outcome of train_model
ExceptClause(outcome) ==
    CASE outcome = "return" -> "else"
      [] outcome = "RuntimeError" -> "continue"
      [] outcome = "KeyboardInterrupt" -> "break"
      [] OTHER -> "propagate"

\* BindParams that binds a spec only the first time it is chosen
BindParamsOnce(choices, c, p) ==
    IF choices[c].params = NoObject
    THEN [choices EXCEPT ![c] = set_params(@, p)]
    ELSE choices

\* optimizer_choice.set_params(params) on the spec at position c
BindParams(choices, c, p) == [choices EXCEPT ![c] = set_params(@, p)]

\* LogOptimizer logging the defaults of the optimizer class, not of the
\* optimizer constructed
LogOptimizerClassDefaults(log, trial_num, name, opt) ==
    log_and_print(log_and_print(log, trial_num, "optimizer choice", name),
                  trial_num, "optimizer properties", TorchDefaults(opt.name))

\* LogOptimizer without the line of the resolved properties
LogOptimizerNameOnly(log, trial_num, name, opt) ==
    log_and_print(log, trial_num, "optimizer choice", name)

\* the two lines logged for the optimizer of a trial
LogOptimizer(log, trial_num, name, opt) ==
    log_and_print(log_and_print(log, trial_num, "optimizer choice", name),
                  trial_num, "optimizer properties", opt.defaults)

Init ==
    /\ num_trials \in 0..MaxTrials
    /\ pc = "for"
    /\ it = 0
    /\ i = NoTrial
    /\ clock = 0
    /\ next_model = 0
    /\ model = NoObject
    /\ params = NoObject
    /\ optimizer_choices = DeclaredOptimizerChoices
    /\ lr_scheduler_choices = DeclaredSchedulerChoices
    /\ optimizer_choice = NoChoice
    /\ sampled = EmptyDict
    /\ optimizer = NoOptimizer
    /\ lr_scheduler = None
    /\ metrics = EmptyDict
    /\ log_file = << >>
    /\ log_open = TRUE
    /\ stat_totals = [l \in StatLabels |-> EmptyDict]
    /\ plots = << >>
    /\ train_calls = << >>
    /\ raised = None

(***************************************************************************)
(* The trial loop, lines 146-217.                                          *)
(***************************************************************************)
\* for i in range(num_trials): the next index is issued and the trial starts
StartTrial ==
    /\ pc = "for"
    /\ RangeHasNext(it, num_trials)
    /\ i' = it
    /\ it' = it + 1
    /\ clock' = clock + 1
    /\ log_file' = log_and_print(log_file, i', "start time", clock)
    /\ pc' = "model"
    /\ UNCHANGED <<num_trials, next_model, trial_vars, space_vars, stat_totals,
                   report_vars, train_calls, raised>>

\* range(num_trials) is exhausted: the loop ends
LoopExit ==
    /\ pc = "for"
    /\ ~RangeHasNext(it, num_trials)
    /\ pc' = "complete"
    /\ UNCHANGED <<num_trials, it, i, clock, next_model, trial_vars, space_vars,
                   log_file, stat_totals, report_vars, train_calls, raised>>

\* lines 152-156: the model of the trial and its trainable parameters
BuildModel ==
    /\ pc = "model"
    /\ \E outcome \in ModelOutcomes :
          IF outcome = "ok"
          THEN /\ model' = build_model(next_model)
               /\ next_model' = next_model + 1
               /\ log_file' = log_and_print(log_file, i, "Model", "network")
               /\ params' = ParametersOf(model')
               /\ pc' = "optimizer"
               /\ raised' = raised
          ELSE /\ raised' = outcome
               /\ pc' = "raised"
               /\ UNCHANGED <<model, next_model, log_file, params>>
    /\ UNCHANGED <<num_trials, it, i, clock, optimizer_choice, sampled, optimizer,
                   lr_scheduler, metrics, space_vars, stat_totals, report_vars,
                   train_calls>>

\* lines 158-162: a spec is chosen, bound to params, materialized and logged
ResolveOptimizer ==
    /\ pc = "optimizer"
    /\ \E c \in DOMAIN optimizer_choices :
          /\ optimizer_choice' = c
          /\ optimizer_choices' = BindParams(optimizer_choices, c, params)
          /\ \E kw \in SampledOptions(optimizer_choices'[c]) :
                /\ sampled' = kw
                /\ optimizer' = Optimizer_get_next(optimizer_choices'[c], kw)
          /\ log_file' =
                LogOptimizer(log_file, i, optimizer_choices'[c].name, optimizer')
    /\ pc' = "lr_scheduler"
    /\ UNCHANGED <<num_trials, it, i, clock, next_model, model, params,
                   lr_scheduler_choices, lr_scheduler, metrics, stat_totals,
                   report_vars, train_calls, raised>>

\* lines 164-181: the scheduler alternative is chosen; None means no scheduler
ResolveScheduler ==
    /\ pc = "lr_scheduler"
    /\ \E c \in DOMAIN lr_scheduler_choices :
          IF lr_scheduler_choices[c] = None
          THEN /\ lr_scheduler' = None
               /\ UNCHANGED <<lr_scheduler_choices, log_file>>
          ELSE /\ lr_scheduler_choices' =
                     [lr_scheduler_choices EXCEPT ![c].optimizer = optimizer]
               /\ lr_scheduler' = [name |-> lr_scheduler_choices[c].name,
                                   optimizer |-> optimizer]
               /\ log_file' =
                     log_and_print(
                       log_and_print(log_file, i, "LR Scheduler choice",
                                     lr_scheduler_choices[c].name),
                       i, "LR Scheduler properties", lr_scheduler'.name)
    /\ pc' = "train"
    /\ UNCHANGED <<num_trials, it, i, clock, next_model, model, params,
                   optimizer_choices, optimizer_choice, sampled, optimizer,
                   metrics, stat_totals, report_vars, train_calls, raised>>

\* lines 183-199: the training call and the two except clauses
TrainModel ==
    /\ pc = "train"
    /\ \E outcome \in TrainOutcomes :
          /\ train_calls' =
                Append(train_calls,
                       [trial |-> i, model |-> model, optimizer |-> optimizer,
                        lr_scheduler |-> lr_scheduler, outcome |-> outcome])
          /\ CASE ExceptClause(outcome) = "else" ->
                    /\ \E m \in ReturnedMetrics : metrics' = m
                    /\ pc' = "log precision"
                    /\ UNCHANGED <<log_file, raised>>
               [] ExceptClause(outcome) = "continue" ->
                    /\ log_file' = log_and_print(log_file, i, "Training failed", outcome)
                    /\ pc' = "for"
                    /\ UNCHANGED <<metrics, raised>>
               [] ExceptClause(outcome) = "break" ->
                    /\ log_file' =
                          log_and_print(log_file, i, "User initiated termination.", outcome)
                    /\ pc' = "complete"
                    /\ UNCHANGED <<metrics, raised>>
               [] OTHER ->
                    /\ raised' = outcome
                    /\ pc' = "raised"
                    /\ UNCHANGED <<metrics, log_file>>
    /\ UNCHANGED <<num_trials, it, i, clock, next_model, model, params,
                   optimizer_choice, sampled, optimizer, lr_scheduler, space_vars,
                   stat_totals, report_vars>>

\* lines 201-206 and 208-212: a metric of the returned mapping is logged;
\* reading a key the mapping lacks raises KeyError
LogStat(at, label, then) ==
    /\ pc = at
    /\ IF label \in DOMAIN metrics
       THEN /\ log_file' = log_and_print(log_file, i, label, metrics[label])
            /\ pc' = then
            /\ raised' = raised
       ELSE /\ raised' = "KeyError"
            /\ pc' = "raised"
            /\ log_file' = log_file
    /\ UNCHANGED <<num_trials, it, i, clock, next_model, trial_vars, space_vars,
                   stat_totals, report_vars, train_calls>>

LogPrecision ==
    LogStat("log precision", AVERAGE_PRECISION_STAT_LABEL, "log recall")

\* LogRecall reading the precision key a second time
LogRecallReadsPrecision ==
    LogStat("log recall", AVERAGE_PRECISION_STAT_LABEL, "store precision")

LogRecall ==
    LogStat("log recall", AVERAGE_RECALL_STAT_LABEL, "store precision")

\* lines 214-216 and 217: stat_totals[label][i] = metrics[label]
StoreStat(at, label, then) ==
    /\ pc = at
    /\ stat_totals' =
          [stat_totals EXCEPT ![label] = DictSet(@, i, metrics[label])]
    /\ pc' = then
    /\ UNCHANGED <<num_trials, it, i, clock, next_model, trial_vars, space_vars,
                   log_file, report_vars, train_calls, raised>>

StorePrecision ==
    StoreStat("store precision", AVERAGE_PRECISION_STAT_LABEL, "store recall")

\* StoreRecall writing into the precision series
StoreRecallIntoPrecision ==
    StoreStat("store recall", AVERAGE_PRECISION_STAT_LABEL, "for")

StoreRecall ==
    StoreStat("store recall", AVERAGE_RECALL_STAT_LABEL, "for")

(***************************************************************************)
(* Finalization, lines 219-253.                                            *)
(***************************************************************************)
\* one plot file: a line per entry of the series, labelled by its trial index
PlotOf(label, series) == [title |-> label, lines |-> series, legend |-> DOMAIN series]

SavePlot(at, label, then) ==
    /\ pc = at
    /\ plots' = Append(plots, PlotOf(label, stat_totals[label]))
    /\ pc' = then
    /\ UNCHANGED <<num_trials, it, i, clock, next_model, trial_vars, space_vars,
                   log_file, log_open, stat_totals, train_calls, raised>>

\* lines 219-237
PlotPrecision == SavePlot("complete", AVERAGE_PRECISION_STAT_LABEL, "plot recall")

\* lines 239-250
PlotRecall == SavePlot("plot recall", AVERAGE_RECALL_STAT_LABEL, "close")

\* CloseLog without log_file.close()
CloseLogLeavesOpen ==
    /\ pc = "close"
    /\ pc' = "done"
    /\ UNCHANGED <<num_trials, it, i, clock, next_model, trial_vars, space_vars,
                   log_file, log_open, plots, stat_totals, train_calls, raised>>

\* lines 252-253
CloseLog ==
    /\ pc = "close"
    /\ log_open' = FALSE
    /\ pc' = "done"
    /\ UNCHANGED <<num_trials, it, i, clock, next_model, trial_vars, space_vars,
                   log_file, plots, stat_totals, train_calls, raised>>

Next ==
    \/ StartTrial
    \/ LoopExit
    \/ BuildModel
    \/ ResolveOptimizer
    \/ ResolveScheduler
    \/ TrainModel
    \/ LogPrecision
    \/ LogRecall
    \/ StorePrecision
    \/ StoreRecall
    \/ PlotPrecision
    \/ PlotRecall
    \/ CloseLog

Spec == Init /\ [][Next]_vars

\* main() runs in a single thread that always goes on to its next statement,
\* and every call it makes returns or raises
FairSpec == Spec /\ WF_vars(Next)

(***************************************************************************)
(* Vocabulary of the properties.                                           *)
(***************************************************************************)
\* a line with this tag was logged for trial t
HasLog(t, tag) ==
    \E k \in DOMAIN log_file : log_file[k].trial = t /\ log_file[k].tag = tag

\* trial t was started: its first line is in the log
Started(t) == HasLog(t, "start time")

\* main() is in the finalization code after the loop
Finalizing == pc \in {"complete", "plot recall", "close", "done"}

\* the trials whose training call had this outcome
TrialsWith(outcome) ==
    {train_calls[k].trial : k \in {n \in DOMAIN train_calls :
                                      train_calls[n].outcome = outcome}}

\* the last training call made, when there is one
LastCall == train_calls[Len(train_calls)]

(***************************************************************************)
(* C1: when the training call of trial t raises RuntimeError, the failure   *)
(* is logged for trial t and the loop goes on: no exception leaves main(),  *)
(* and if t+1 < num_trials then trial t+1 is the next one started (the      *)
(* loop is at its head about to issue t+1, or t+1 has started), otherwise   *)
(* the loop ends normally.                                                  *)
(***************************************************************************)
C1_FailureContinues ==
    \A k \in DOMAIN train_calls :
        train_calls[k].outcome = "RuntimeError" =>
            LET t == train_calls[k].trial
            IN  /\ HasLog(t, "Training failed")
                /\ IF t + 1 < num_trials
                   THEN \/ pc = "for" /\ it = t + 1 /\ raised = None
                        \/ Started(t + 1)
                   ELSE (pc = "for" \/ Finalizing) /\ raised = None

\* a failed trial is followed by the training call of the next trial
C1_Witness ==
    \E k \in DOMAIN train_calls :
        /\ train_calls[k].outcome = "RuntimeError"
        /\ k < Len(train_calls)
        /\ train_calls[k + 1].trial = train_calls[k].trial + 1

(***************************************************************************)
(* C2: when the training call of trial t raises KeyboardInterrupt, trial t  *)
(* is logged as terminated by the user and gets no aggregate entry, no      *)
(* trial after t is ever started, main() is in finalization with no         *)
(* exception raised, and from then on stat_totals never changes.            *)
(***************************************************************************)
Cancelled == TrialsWith("KeyboardInterrupt") # {}

C2_CancelState ==
    Cancelled =>
        LET t == LastCall.trial
        IN  /\ LastCall.outcome = "KeyboardInterrupt"
            /\ TrialsWith("KeyboardInterrupt") = {t}
            /\ HasLog(t, "User initiated termination.")
            /\ \A l \in StatLabels : ~HasLog(t, l) /\ t \notin DOMAIN stat_totals[l]
            /\ \A k \in DOMAIN log_file : log_file[k].trial <= t
            /\ i = t
            /\ Finalizing
            /\ raised = None

C2_CancelStopsTrials ==
    /\ []C2_CancelState
    /\ [][(Cancelled \/ Cancelled') =>
            /\ stat_totals' = stat_totals
            /\ train_calls' = train_calls \/ ~Cancelled]_vars

\* trial 0 of 2 was cancelled and the session was finalized: trial 1 never
\* started
C2_Witness ==
    /\ pc = "done"
    /\ num_trials = 2
    /\ Len(train_calls) = 1
    /\ LastCall.trial = 0
    /\ LastCall.outcome = "KeyboardInterrupt"
    /\ ~Started(1)

(***************************************************************************)
(* C3: in finalization, each of the two series of stat_totals holds exactly *)
(* the indices of the trials whose training call returned normally.         *)
(***************************************************************************)
C3_AggregateIsCompleted ==
    Finalizing =>
        \A l \in StatLabels : DOMAIN stat_totals[l] = TrialsWith("return")

\* a session with a failed trial and a later completed one was finalized
C3_Witness ==
    /\ pc = "done"
    /\ Len(train_calls) = 2
    /\ train_calls[1].outcome = "RuntimeError"
    /\ train_calls[2].outcome = "return"
    /\ DOMAIN stat_totals[AVERAGE_RECALL_STAT_LABEL] = {1}

(***************************************************************************)
(* C4: no exception raised within a trial leaves main(): main() never ends  *)
(* by an exception.                                                         *)
(***************************************************************************)
C4_NoErrorEscapes == pc # "raised" /\ raised = None

(***************************************************************************)
(* C5: whenever train_model is about to be called, and for every call made  *)
(* (whatever its outcome), the log holds for that trial the chosen          *)
(* optimizer's name and its resolved parameter values.                      *)
(***************************************************************************)
ConfigLogged(t, opt) ==
    /\ \E k \in DOMAIN log_file :
          /\ log_file[k].trial = t
          /\ log_file[k].tag = "optimizer choice"
          /\ log_file[k].val = opt.name
    /\ \E k \in DOMAIN log_file :
          /\ log_file[k].trial = t
          /\ log_file[k].tag = "optimizer properties"
          /\ log_file[k].val = opt.defaults

C5_ConfigLoggedBeforeTraining ==
    /\ pc = "train" => ConfigLogged(i, optimizer)
    /\ \A k \in DOMAIN train_calls :
          ConfigLogged(train_calls[k].trial, train_calls[k].optimizer)

\* a training call raised and the configuration of its trial is in the log
C5_Witness ==
    /\ train_calls # << >>
    /\ LastCall.outcome \in {"RuntimeError", "Exception"}
    /\ ConfigLogged(LastCall.trial, LastCall.optimizer)

(***************************************************************************)
(* C6 (as claimed): the parameter map logged for a trial has exactly the    *)
(* keys and values sampled from the chosen spec's options.                  *)
(***************************************************************************)
\* the lines of the log that record the parameter map of the current trial
PropertyLines ==
    {k \in DOMAIN log_file :
        log_file[k].trial = i /\ log_file[k].tag = "optimizer properties"}

C6_RecordedIsSampled ==
    \A k \in PropertyLines :
        /\ DOMAIN log_file[k].val = DOMAIN sampled
        /\ \A o \in DOMAIN sampled : log_file[k].val[o] = sampled[o]

(***************************************************************************)
(* C6 (amended): the parameter map logged for a trial is the defaults map   *)
(* of the constructed optimizer: every option the spec declares is in it    *)
(* with exactly its sampled value, and every other key is an option the     *)
(* spec does not declare, with the optimizer's own default.                 *)
(***************************************************************************)
C6_RecordedExtendsSampled ==
    \A k \in PropertyLines :
        LET recorded == log_file[k].val
        IN  /\ recorded = optimizer.defaults
            /\ DOMAIN sampled = DOMAIN optimizer_choices[optimizer_choice].options
            /\ DOMAIN sampled \subseteq DOMAIN recorded
            /\ \A o \in DOMAIN sampled : recorded[o] = sampled[o]
            /\ \A o \in DOMAIN recorded \ DOMAIN sampled :
                  recorded[o] = TorchDefaults(optimizer.name)[o]

\* an SGD trial is about to train: its sampled momentum is recorded, next to
\* nesterov, which the spec does not declare
C6_Witness ==
    /\ pc = "train"
    /\ optimizer.name = "SGD"
    /\ sampled.momentum = 9900
    /\ \E k \in PropertyLines :
          /\ log_file[k].val.momentum = 9900
          /\ "nesterov" \in DOMAIN log_file[k].val
          /\ "nesterov" \notin DOMAIN sampled

C8_EmptySession ==
    num_trials = 0 =>
        /\ i = NoTrial
        /\ it = 0
        /\ next_model = 0
        /\ Len(train_calls) = 0
        /\ Len(log_file) = 0
        /\ \A l \in StatLabels : DOMAIN stat_totals[l] = {}
        /\ raised = None
        /\ pc = "for" \/ Finalizing
        /\ \A k \in DOMAIN plots : plots[k].legend = {}
        /\ pc = "done" => Len(plots) = 2 /\ ~log_open

\* the session of zero trials has finished
C8_Witness ==
    /\ num_trials = 0
    /\ pc = "done"
    /\ Len(plots) = 2

(***************************************************************************)
(* C9: the started trials are always a prefix 0..k of the indices, the      *)
(* training calls and the aggregate entries come in increasing index order, *)
(* a trial starts only when the one before it is finalized, and a session   *)
(* that has ended with k < num_trials - 1 ended because trial k was         *)
(* cancelled.                                                               *)
(***************************************************************************)
\* trial t is finalized: completed (both entries stored), failed or cancelled
Finalized(t) ==
    \/ HasLog(t, "Training failed")
    \/ HasLog(t, "User initiated termination.")
    \/ \A l \in StatLabels : t \in DOMAIN stat_totals[l]

SessionEnded == pc \in {"done", "raised"}

C9_StartedIsPrefix ==
    /\ \A t \in 0..(num_trials - 1) : Started(t) <=> t < it
    /\ \A t \in 0..(it - 2) : Finalized(t)
    /\ \A k \in DOMAIN train_calls :
          k > 1 => train_calls[k - 1].trial < train_calls[k].trial
    /\ \A l \in StatLabels : DOMAIN stat_totals[l] \subseteq 0..(it - 1)

C9_TrialOrder ==
    /\ C9_StartedIsPrefix
    /\ (SessionEnded /\ it < num_trials) =>
          /\ train_calls # << >>
          /\ LastCall.trial = it - 1
          /\ LastCall.outcome = "KeyboardInterrupt"

(***************************************************************************)
(* C10: every step keeps each entry of stat_totals with its sequence, and   *)
(* an entry that appears is the entry of the current trial, whose training  *)
(* call was the last one and returned, holding the returned sequence.       *)
(***************************************************************************)
C10_AppendOnce ==
    [][\A l \in StatLabels :
          /\ \A j \in DOMAIN stat_totals[l] :
                /\ j \in DOMAIN stat_totals'[l]
                /\ stat_totals'[l][j] = stat_totals[l][j]
          /\ \A j \in DOMAIN stat_totals'[l] \ DOMAIN stat_totals[l] :
                /\ j = i
                /\ LastCall.trial = j
                /\ LastCall.outcome = "return"
                /\ stat_totals'[l][j] = metrics[l]]_vars

\* two completed trials with different sequences were reported
C10_Witness ==
    /\ pc = "done"
    /\ \A l \in StatLabels :
          /\ DOMAIN stat_totals[l] = {0, 1}
          /\ stat_totals[l][0] # stat_totals[l][1]
    /\ plots[1].lines = stat_totals[AVERAGE_PRECISION_STAT_LABEL]

(***************************************************************************)
(* C11: when the session has ended, the log alone tells the outcome of      *)
(* every index 0..num_trials-1: the status read from the lines logged for   *)
(* an index is the outcome the trial really had (completed, failed,         *)
(* cancelled, never attempted, or left by an exception that ended main()),  *)
(* no index carries the marks of two outcomes, a session that reached its   *)
(* end normally has one of the first four for every index, and the legend   *)
(* of each plot lists exactly the completed trials.                         *)
(***************************************************************************)
\* what happened to trial t, from the calls made and the entries stored
TrueStatus(t) ==
    CASE t >= it -> "never attempted"
      [] t \in TrialsWith("RuntimeError") -> "Failed"
      [] t \in TrialsWith("KeyboardInterrupt") -> "Cancelled"
      [] /\ t \in TrialsWith("return")
         /\ \A l \in StatLabels : t \in DOMAIN stat_totals[l] -> "Completed"
      [] OTHER -> "aborted"

\* what a reader of the log file concludes for trial t
LogStatus(t) ==
    CASE ~\E k \in DOMAIN log_file : log_file[k].trial = t -> "never attempted"
      [] HasLog(t, "Training failed") -> "Failed"
      [] HasLog(t, "User initiated termination.") -> "Cancelled"
      [] \A l \in StatLabels : HasLog(t, l) -> "Completed"
      [] OTHER -> "aborted"

\* the outcome marks found in the log for trial t
OutcomeMarks(t) ==
    {m \in {"Training failed", "User initiated termination.",
            AVERAGE_RECALL_STAT_LABEL} : HasLog(t, m)}

C11_LogTellsStatus ==
    SessionEnded =>
        /\ \A t \in 0..(num_trials - 1) :
              /\ LogStatus(t) = TrueStatus(t)
              /\ Cardinality(OutcomeMarks(t)) <= 1
              /\ pc = "done" => LogStatus(t) # "aborted"
        /\ \A k \in DOMAIN plots :
              plots[k].legend =
                  {t \in 0..(num_trials - 1) : LogStatus(t) = "Completed"}

\* a finished session of two trials: the first is read as failed, the second
\* as completed
C11_Witness ==
    /\ pc = "done"
    /\ num_trials = 2
    /\ LogStatus(0) = "Failed"
    /\ TrueStatus(0) = "Failed"
    /\ LogStatus(1) = "Completed"
    /\ TrueStatus(1) = "Completed"

(***************************************************************************)
(* C12: the models passed to train_model in different trials are different  *)
(* objects, constructed in the trial that trains them (after every model of *)
(* an earlier trial), so are the parameter collections their optimizers     *)
(* hold, and the optimizer of a call holds the parameters of the model of   *)
(* the same call.                                                           *)
(***************************************************************************)
C12_FreshModelPerTrial ==
    /\ \A a, b \in DOMAIN train_calls :
          a < b =>
             /\ train_calls[a].model < train_calls[b].model
             /\ train_calls[a].optimizer.params # train_calls[b].optimizer.params
             /\ train_calls[a].optimizer.params # ParametersOf(train_calls[b].model)
             /\ train_calls[b].optimizer.params # ParametersOf(train_calls[a].model)
    /\ \A a \in DOMAIN train_calls :
          /\ train_calls[a].model # NoObject
          /\ train_calls[a].model < next_model
          /\ train_calls[a].optimizer.params = ParametersOf(train_calls[a].model)
    /\ pc \in {"lr_scheduler", "train"} =>
          /\ model = next_model - 1
          /\ \A a \in DOMAIN train_calls : train_calls[a].model # model

\* two trials trained with the same kind of optimizer, each on its own model
C12_Witness ==
    /\ Len(train_calls) = 2
    /\ train_calls[1].optimizer.name = train_calls[2].optimizer.name
    /\ train_calls[1].model = 0
    /\ train_calls[2].model = 1
    /\ train_calls[2].optimizer.params = ParametersOf(1)

(***************************************************************************)
(* C13: train_model is called at most num_trials times, main() always       *)
(* comes to an end, and unless an exception leaves main() (every trial      *)
(* completes, fails with RuntimeError or is cancelled) it ends finalized:   *)
(* both plots saved and the log file closed.                                *)
(***************************************************************************)
Reported == pc = "done" /\ Len(plots) = 2 /\ ~log_open

C13_Terminates ==
    /\ [](Len(train_calls) <= num_trials)
    /\ <>SessionEnded
    /\ [](raised = None) => <>Reported

\* a session whose first trial failed and whose second was cancelled is
\* finalized
C13_Witness ==
    /\ Reported
    /\ Len(train_calls) = 2
    /\ train_calls[1].outcome = "RuntimeError"
    /\ train_calls[2].outcome = "KeyboardInterrupt"

(***************************************************************************)
(* C14: except between the two stores of lines 214-217, the two series of   *)
(* stat_totals hold the same trial indices; an entry is stored for a trial  *)
(* only if the mapping its training call returned has both keys, and a      *)
(* trial that ended by the KeyError of a missing key has no entry in either *)
(* series.                                                                  *)
(***************************************************************************)
C14_SeriesAgree ==
    /\ pc # "store recall" =>
          DOMAIN stat_totals[AVERAGE_PRECISION_STAT_LABEL]
              = DOMAIN stat_totals[AVERAGE_RECALL_STAT_LABEL]
    /\ \A l \in StatLabels :
          i \in DOMAIN stat_totals[l] => StatLabels \subseteq DOMAIN metrics
    /\ raised = "KeyError" =>
          /\ ~(StatLabels \subseteq DOMAIN metrics)
          /\ \A l \in StatLabels : i \notin DOMAIN stat_totals[l]

\* trial 0 completed; the mapping returned in trial 1 had no recall key: its
\* precision was logged and neither series got an entry for trial 1
C14_Witness ==
    /\ raised = "KeyError"
    /\ i = 1
    /\ DOMAIN metrics = {AVERAGE_PRECISION_STAT_LABEL}
    /\ HasLog(1, AVERAGE_PRECISION_STAT_LABEL)
    /\ \A l \in StatLabels : DOMAIN stat_totals[l] = {0}

=============================================================================
